---------------------------- MODULE Spec2Model ----------------------------
(***************************************************************************)
(* TPM front ends of qemu-tpm:                                             *)
(*   - the sPAPR vTPM (CRQ mailbox) device, src/hw/tpm/tpm_ioctl.h 211-654 *)
(*   - the CRB (memory mapped) device,      src/hw/tpm/tpm_crb.c           *)
(* Each handler of the C code is one action.  The variable io records the  *)
(* calls the last handler made on its collaborators (backend, DMA engine,  *)
(* CRQ queue) together with its input and its return value.                *)
(***************************************************************************)
EXTENDS Integers, Sequences, FiniteSets, TLC

VARIABLES
    \* ---- SPAPRvTPMState (tpm_ioctl.h 285-305)
    crq,              \* TPMSpaprCRQ crq: the tracked request, wire bytes
    state,            \* uint8_t state
    buffer,           \* unsigned char buffer[MAX_BUFFER_SIZE]
    be_tpm_version,   \* TPMVersion be_tpm_version
    be_buffer_size,   \* size_t be_buffer_size (sPAPR)
    run_bh_func,      \* bool run_bh_func
    \* ---- CRBState (tpm_crb.c 30-40)
    regs,             \* struct crb_regs regs
    cmd,              \* TPMBackendCmd cmd
    crb_buffer_size,  \* size_t be_buffer_size (CRB)
    \* ---- environment
    bePending,        \* commands delivered to the backend, callback not yet run
    had_startup_error, \* what tpm_backend_had_startup_error reports
    phase,            \* "created" | "realized" | "failed" | "running" | "saved" | "halted"
    io                \* what the last handler did

spaprVars == <<crq, state, buffer, be_tpm_version, be_buffer_size, run_bh_func>>
crbVars   == <<regs, cmd, crb_buffer_size>>
vars      == <<crq, state, buffer, be_tpm_version, be_buffer_size, run_bh_func,
               regs, cmd, crb_buffer_size, bePending, had_startup_error, phase,
               io>>

(***************************************************************************)
(* Bounds of the model.                                                    *)
(***************************************************************************)
\* commands the backend may hold whose completion callback has not run
MaxPending == 2
\* backend-reported buffer sizes go up to MaxBufUnits * BufUnit
MaxBufUnits == 1
BufUnit     == 65536

(***************************************************************************)
(* Program constants.                                                      *)
(***************************************************************************)
SPAPR_VTPM_VALID_INIT_CRQ_COMMAND   == 192
SPAPR_VTPM_VALID_COMMAND            == 128
SPAPR_VTPM_MSG_RESULT               == 128
SPAPR_VTPM_INIT_CRQ_RESULT          == 1
SPAPR_VTPM_INIT_CRQ_COMPLETE_RESULT == 2
SPAPR_VTPM_GET_VERSION              == 1
SPAPR_VTPM_TPM_COMMAND              == 2
SPAPR_VTPM_GET_RTCE_BUFFER_SIZE     == 3
SPAPR_VTPM_PREPARE_TO_SUSPEND       == 4
SPAPR_VTPM_VTPM_ERROR               == 255
SPAPR_VTPM_ERR_COPY_IN_FAILED       == 3
SPAPR_VTPM_ERR_COPY_OUT_FAILED      == 4
SPAPR_VTPM_STATE_NONE               == 0
SPAPR_VTPM_STATE_EXECUTION          == 1
SPAPR_VTPM_STATE_COMPLETION         == 2

\* TARGET_PAGE_SIZE of the ppc64 target (4 KiB pages)
TARGET_PAGE_SIZE == 4096
MAX_BUFFER_SIZE  == TARGET_PAGE_SIZE
\* sizeof(s->buffer)
SizeofBuffer     == MAX_BUFFER_SIZE

MIN(a, b) == IF a < b THEN a ELSE b
MAX(a, b) == IF a > b THEN a ELSE b
ROUND_UP(n, d) == ((n + d - 1) \div d) * d

\* bitwise helpers on single bits of a register value
BitSet(v, bit)   == (v \div bit) % 2 = 1
OrBit(v, bit)    == IF BitSet(v, bit) THEN v ELSE v + bit
ClearBit(v, bit) == IF BitSet(v, bit) THEN v - bit ELSE v
\* x | 0x80 on a byte
OrByte80(b) == IF b >= 128 THEN b ELSE b + 128

(***************************************************************************)
(* Byte order conversions: a multi-byte field of the CRQ is kept as the    *)
(* sequence of its bytes in memory (big endian on the wire).               *)
(***************************************************************************)
cpu_to_be16(x) == <<(x \div 256) % 256, x % 256>>
\* a decoder that takes the first byte for the low one
be16_to_cpu_le(b) == b[2] * 256 + b[1]
be16_to_cpu(b) == b[1] * 256 + b[2]
cpu_to_be32(x) == <<(x \div 16777216) % 256, (x \div 65536) % 256,
                    (x \div 256) % 256, x % 256>>
be32_to_cpu(b) == b[1] * 16777216 + b[2] * 65536 + b[3] * 256 + b[4]

\* the same conversions on a 32-bit value kept as its two 16-bit halves, for
\* values up to 2^32 - 1
cpu_to_be32_halves(w) == cpu_to_be16(w.hi) \o cpu_to_be16(w.lo)
be32_to_cpu_halves(b) == [hi |-> be16_to_cpu(SubSeq(b, 1, 2)),
                          lo |-> be16_to_cpu(SubSeq(b, 3, 4))]

\* hypercall return codes (distinct values; H_SUCCESS is the zero one)
H_SUCCESS   == "H_SUCCESS"
H_BUSY      == "H_BUSY"
H_DEST_PARM == "H_DEST_PARM"

\* enum TPMVersion
TPM_VERSION_UNSPEC == "TPM_VERSION_UNSPEC"
TPM_VERSION_1_2    == "TPM_VERSION_1_2"
TPM_VERSION_2_0    == "TPM_VERSION_2_0"
TPMVersions == {TPM_VERSION_UNSPEC, TPM_VERSION_1_2, TPM_VERSION_2_0}


(***************************************************************************)
(* Inputs.                                                                 *)
(***************************************************************************)
\* what tpm_backend_get_buffer_size may report
BackendBufferSizes ==
    {k * BufUnit : k \in 0..MaxBufUnits}
        \cup {TARGET_PAGE_SIZE, TARGET_PAGE_SIZE + 1}

\* guest addresses carried in the data field of a TPM command CRQ
GuestAddrs == {8192, 16909060}

\* values of the size field in the header of a command the guest placed in
\* its memory (tpm_cmd_get_size reads it back from the buffer)
CmdSizes == {10, 70000}
\* values of the size field in the header of a response the backend wrote
\* into the out buffer of out_len = sizeof(buffer) bytes
RspSizes == {300}

\* the CRQ messages a guest may post (16 bytes: valid, msg, len, data, reserved)
CrqInputs ==
    [valid    : {SPAPR_VTPM_VALID_COMMAND},
     msg      : 1..5,
     len      : {cpu_to_be16(300)},
     data     : {cpu_to_be32(a) : a \in GuestAddrs},
     reserved : {9}]
    \cup
    [valid    : {SPAPR_VTPM_VALID_INIT_CRQ_COMMAND},
     msg      : 1..3,
     len      : {cpu_to_be16(300)},
     data     : {cpu_to_be32(8192)},
     reserved : {9}]
    \cup
    [valid    : {129},
     msg      : {SPAPR_VTPM_TPM_COMMAND},
     len      : {cpu_to_be16(300)},
     data     : {cpu_to_be32(8192)},
     reserved : {9}]

ZeroCRQ == [valid |-> 0, msg |-> 0, len |-> <<0, 0>>, data |-> <<0, 0, 0, 0>>,
            reserved |-> 0]

\* contents of the scratch buffer: the size field of the TPM header it holds
\* and who wrote it
ZeroBuffer == [kind |-> "zero", size |-> 0]
tpm_cmd_get_size(b) == b.size

NoIO == [op |-> "none", arg |-> <<>>, rc |-> "", delivered |-> <<>>,
         dma |-> <<>>, sent |-> <<>>, send_rc |-> "", be |-> <<>>]

(***************************************************************************)
(* The CRQ on the wire: union TPMSpaprCRQ overlays the 16 bytes raw[] on   *)
(* the members of VioCRQ (valid, msg, len, data, reserved).                *)
(***************************************************************************)
\* the bytes of raw[] for a VioCRQ whose len and data hold big-endian values
CrqRaw(m) ==
    <<m.valid, m.msg>> \o m.len \o m.data
        \o <<0, 0, 0, 0, 0, 0, 0, m.reserved>>

\* the members of the VioCRQ a raw[] of 16 bytes overlays
CrqFromRaw(raw) ==
    [valid    |-> raw[1],
     msg      |-> raw[2],
     len      |-> SubSeq(raw, 3, 4),
     data     |-> SubSeq(raw, 5, 8),
     reserved |-> raw[16]]

\* a response CRQ for an opcode, a length and a data word (lines 477-486)
CrqEncode(t) ==
    CrqRaw([valid    |-> SPAPR_VTPM_MSG_RESULT,
            msg      |-> t.msg,
            len      |-> cpu_to_be16(t.len),
            data     |-> cpu_to_be32_halves(t.data),
            reserved |-> 0])

\* the opcode, length and data word a receiver reads from a CRQ
CrqDecode(raw) ==
    LET m == CrqFromRaw(raw)
    IN  [msg  |-> m.msg,
         len  |-> be16_to_cpu(m.len),
         data |-> be32_to_cpu_halves(m.data)]

\* opcodes, lengths and data words that fit their fields
FrameOpcodes == {0, SPAPR_VTPM_GET_VERSION, OrByte80(SPAPR_VTPM_TPM_COMMAND),
                 SPAPR_VTPM_VTPM_ERROR}
FrameLens    == {0, 1, 255, 256, 300, 65535}
FrameHalves  == {0, 258, 772, 65535}
FrameTriples ==
    [msg : FrameOpcodes, len : FrameLens,
     data : [hi : FrameHalves, lo : FrameHalves]]

\* one message is encoded, put on the wire and decoded
VioCRQ_frame ==
    /\ \E t \in FrameTriples :
          io' = [NoIO EXCEPT !.op = "frame", !.arg = t,
                     !.sent = <<CrqEncode(t)>>,
                     !.delivered = <<CrqDecode(CrqEncode(t))>>]
    /\ UNCHANGED <<spaprVars, crbVars, bePending, had_startup_error, phase>>

(***************************************************************************)
(* Realization                                                             *)
(***************************************************************************)
\* the number of TPM front ends in the machine when a device is realized, the
\* device itself included
TpmCounts == {1, 2}

\* tpm_find(): the TPM front end of the machine when there is exactly one,
\* NULL otherwise; TRUE stands for a non-NULL result
tpm_find(n) == n = 1

\* the messages of error_setg
ErrAtMostOne == "at most one TPM device is permitted"
ErrNoBackend == "'tpmdev' property is required"
\* what memory_region_init_ram may store through errp
RamErrors == {"", "cannot set up guest memory"}

\* tpm_spapr_realizefn
tpm_spapr_realizefn ==
    /\ UNCHANGED had_startup_error
    /\ phase = "created"
    /\ \E n \in TpmCounts, be_driver \in BOOLEAN :
        LET done(err, calls) ==
                /\ io' = [NoIO EXCEPT !.op = "realize", !.arg = <<n, be_driver>>,
                              !.rc = err, !.be = calls]
                /\ phase' = IF err = "" THEN "realized" ELSE "failed"
        IN  IF ~tpm_find(n) THEN done(ErrAtMostOne, <<>>)
            ELSE IF ~be_driver THEN done(ErrNoBackend, <<<<"SendFunc">>>>)
            ELSE done("", <<<<"SendFunc">>>>)
    /\ UNCHANGED <<spaprVars, bePending>>
    /\ UNCHANGED crbVars

\* the calls of tpm_crb_realizefn that create and map the regions (291-298)
CrbRegionCalls ==
    << <<"memory_region_init_io">>, <<"memory_region_init_ram">>,
       <<"sysbus_init_mmio">>, <<"sysbus_mmio_map">>,
       <<"memory_region_add_subregion">> >>

\* tpm_crb_realizefn
tpm_crb_realizefn ==
    /\ UNCHANGED had_startup_error
    /\ phase = "created"
    /\ \E n \in TpmCounts, tpmbe \in BOOLEAN, ram \in RamErrors :
        LET done(err, calls) ==
                /\ io' = [NoIO EXCEPT !.op = "realize", !.arg = <<n, tpmbe>>,
                              !.rc = err, !.be = calls]
                /\ phase' = IF err = "" THEN "realized" ELSE "failed"
        IN  IF ~tpm_find(n) THEN done(ErrAtMostOne, <<>>)
            ELSE IF ~tpmbe THEN done(ErrNoBackend, <<>>)
            ELSE done(ram, CrbRegionCalls)
    /\ UNCHANGED <<crbVars, bePending>>
    /\ UNCHANGED spaprVars

(***************************************************************************)
(* sPAPR vTPM                                                              *)
(***************************************************************************)
\* tpm_spapr_tpm_send: the TPMBackendCmd handed to tpm_backend_deliver_request
tpm_spapr_tpm_send(buf) ==
    [in_len  |-> MIN(tpm_cmd_get_size(buf), SizeofBuffer),
     out_len |-> SizeofBuffer]

\* a negotiation that forgets to round up to the page size
SpaprNegotiate_noround(B) == MAX(B, SizeofBuffer)

\* the negotiation of tpm_spapr_reset
SpaprNegotiate(B) == MAX(ROUND_UP(B, TARGET_PAGE_SIZE), SizeofBuffer)

\* tpm_spapr_reset
tpm_spapr_reset ==
    /\ phase \in {"realized", "running"}
    /\ bePending < MaxPending
    /\ \E B \in BackendBufferSizes, ver \in TPMVersions :
        /\ state' = SPAPR_VTPM_STATE_NONE
        /\ be_tpm_version' = ver
        \* tpm_spapr_do_startup_tpm: the result is not looked at
        /\ had_startup_error' \in BOOLEAN
        /\ be_buffer_size' = SpaprNegotiate(B)
        /\ io' = [NoIO EXCEPT !.op = "reset", !.arg = <<B>>,
                      !.be = <<<<"reset">>, <<"startup", SpaprNegotiate(B)>>>>]
    /\ phase' = "running"
    /\ UNCHANGED <<crq, buffer, run_bh_func, bePending>>
    /\ UNCHANGED crbVars


\* a dispatch that never rejects
SpaprBusy_never(st) == FALSE

\* the test of tpm_spapr_do_crq that rejects a TPM command (line 399)
SpaprBusy(st) == st = SPAPR_VTPM_STATE_EXECUTION

\* an answer to an init CRQ that echoes the request without zeroing it
InitResponse_echo(m) == m

\* the answer of tpm_spapr_do_crq to an init CRQ (lines 379-381, 387-389)
InitResponse(m) ==
    [ZeroCRQ EXCEPT !.valid = SPAPR_VTPM_VALID_INIT_CRQ_COMMAND, !.msg = m.msg]

\* the error CRQ sent when the DMA read failed (lines 409-411)
CopyInError(m) ==
    [m EXCEPT !.valid = SPAPR_VTPM_MSG_RESULT,
              !.msg   = SPAPR_VTPM_VTPM_ERROR,
              !.data  = cpu_to_be32(SPAPR_VTPM_ERR_COPY_IN_FAILED)]

\* the answer to SPAPR_VTPM_GET_RTCE_BUFFER_SIZE (lines 419-420)
RtceResponse(m, size) ==
    [m EXCEPT !.msg = OrByte80(m.msg), !.len = cpu_to_be16(size)]

\* the answer to SPAPR_VTPM_GET_VERSION (lines 425-437); the switch has no
\* default, so any other value of be_tpm_version leaves data as received
VersionResponse(m, ver) ==
    [m EXCEPT !.msg  = OrByte80(m.msg),
              !.len  = cpu_to_be16(0),
              !.data = CASE ver = TPM_VERSION_UNSPEC -> cpu_to_be32(0)
                         [] ver = TPM_VERSION_1_2    -> cpu_to_be32(1)
                         [] ver = TPM_VERSION_2_0    -> cpu_to_be32(2)
                         [] OTHER                    -> m.data]

\* an answer to prepare-to-suspend that drops the length of the request
SuspendResponse_nolen(m) ==
    [m EXCEPT !.msg = OrByte80(m.msg), !.len = cpu_to_be16(0)]

\* the answer to SPAPR_VTPM_PREPARE_TO_SUSPEND (line 445)
SuspendResponse(m) == [m EXCEPT !.msg = OrByte80(m.msg)]

\* an answer to an unknown CRQ that reports an error to the guest
UnknownResponse_error(m) == <<CopyInError(m)>>

\* the CRQs sent for a CRQ that no case label matches (lines 449-456): the
\* default branches only log
UnknownResponse(m) == <<>>

\* the tracked crq after a successful DMA read (line 407)
TrackedAfterCopyIn(m) == [m EXCEPT !.valid = be16_to_cpu(cpu_to_be16(0))]

(***************************************************************************)
(* spapr_vio_dma_read(&s->vdev, dataptr, s->buffer, s->be_buffer_size):    *)
(* the possible results.  over tells whether more than sizeof(s->buffer)   *)
(* bytes were stored, i.e. whether the members that follow buffer in       *)
(* SPAPRvTPMState (cmd, be_driver, be_tpm_version, be_buffer_size,         *)
(* run_bh_func) and the heap behind the object were overwritten.           *)
(***************************************************************************)
DmaReadOutcomes(len) ==
    IF len = 0
    THEN {[rc |-> H_SUCCESS, buf |-> buffer, over |-> FALSE]}
    ELSE {[rc |-> H_SUCCESS, buf |-> [kind |-> "cmd", size |-> n],
           over |-> len > SizeofBuffer] : n \in CmdSizes}
         \cup
         {[rc |-> H_DEST_PARM, buf |-> b, over |-> o] :
              b \in {buffer} \cup {[kind |-> "cmd", size |-> n] : n \in CmdSizes},
              o \in {FALSE} \cup {len > SizeofBuffer}}

\* what an overrun of the buffer can leave in the members behind it, when the
\* process survives it: the values they had, or bytes of the guest's choosing
TrailingOutcomes ==
    {[ver |-> be_tpm_version, size |-> be_buffer_size, bh |-> run_bh_func],
     [ver |-> "garbage", size |-> TARGET_PAGE_SIZE + 1, bh |-> ~run_bh_func]}

\* tpm_spapr_process_cmd, called by tpm_spapr_do_crq for an accepted TPM command
SpaprAccept(m) ==
    \E r \in DmaReadOutcomes(be_buffer_size) :
        LET rd == [dir |-> "read", addr |-> be32_to_cpu(m.data),
                   len |-> be_buffer_size, rc |-> r.rc]
        IN  \/ \* the read stayed inside the buffer, or the overrun was survived
               /\ \E t \in IF r.over THEN TrailingOutcomes
                           ELSE {[ver |-> be_tpm_version, size |-> be_buffer_size,
                                  bh |-> run_bh_func]} :
                      /\ be_tpm_version' = t.ver
                      /\ be_buffer_size' = t.size
                      /\ run_bh_func' = t.bh
               /\ buffer' = r.buf
               /\ state' = SPAPR_VTPM_STATE_EXECUTION
               /\ bePending' = bePending + 1
               /\ crq' = IF r.rc = H_SUCCESS THEN TrackedAfterCopyIn(m) ELSE m
               /\ io' = [NoIO EXCEPT !.op = "do_crq", !.arg = m, !.rc = H_SUCCESS,
                             !.dma = <<rd>>,
                             !.delivered = <<tpm_spapr_tpm_send(r.buf)>>,
                             !.sent = IF r.rc = H_SUCCESS THEN <<>>
                                      ELSE <<CopyInError(m)>>]
               /\ phase' = phase
            \/ \* the overrun destroyed be_driver or the heap: the process dies
               /\ r.over
               /\ buffer' = r.buf
               /\ crq' = m
               /\ io' = [NoIO EXCEPT !.op = "do_crq", !.arg = m, !.rc = "abort",
                             !.dma = <<rd>>]
               /\ phase' = "halted"
               /\ UNCHANGED <<state, be_tpm_version, be_buffer_size, run_bh_func,
                              bePending>>

\* tpm_spapr_do_crq
tpm_spapr_do_crq ==
    /\ UNCHANGED had_startup_error
    /\ phase = "running"
    /\ \E m \in CrqInputs :
        LET answer(rsp) ==
                /\ io' = [NoIO EXCEPT !.op = "do_crq", !.arg = m, !.rc = H_SUCCESS,
                              !.sent = rsp]
                /\ UNCHANGED <<spaprVars, bePending, phase>>
        IN
        IF m.valid = SPAPR_VTPM_VALID_INIT_CRQ_COMMAND THEN
            IF m.msg \in {SPAPR_VTPM_INIT_CRQ_RESULT,
                          SPAPR_VTPM_INIT_CRQ_COMPLETE_RESULT}
            THEN answer(<<InitResponse(m)>>)
            ELSE answer(<<>>)
        ELSE IF m.valid = SPAPR_VTPM_VALID_COMMAND THEN
            IF m.msg = SPAPR_VTPM_TPM_COMMAND THEN
                IF SpaprBusy(state)
                THEN /\ io' = [NoIO EXCEPT !.op = "do_crq", !.arg = m, !.rc = H_BUSY]
                     /\ UNCHANGED <<spaprVars, bePending, phase>>
                ELSE SpaprAccept(m)
            ELSE IF m.msg = SPAPR_VTPM_GET_RTCE_BUFFER_SIZE THEN
                answer(<<RtceResponse(m, be_buffer_size)>>)
            ELSE IF m.msg = SPAPR_VTPM_GET_VERSION THEN
                answer(<<VersionResponse(m, be_tpm_version)>>)
            ELSE IF m.msg = SPAPR_VTPM_PREPARE_TO_SUSPEND THEN
                answer(<<SuspendResponse(m)>>)
            ELSE answer(UnknownResponse(m))
        ELSE answer(UnknownResponse(m))
    /\ UNCHANGED crbVars


\* the response CRQ built by _tpm_spapr_request_completed (lines 477-486)
CompletionCRQ(c, rc, len) ==
    IF rc = H_SUCCESS
    THEN [c EXCEPT !.valid = SPAPR_VTPM_MSG_RESULT,
                   !.msg   = OrByte80(SPAPR_VTPM_TPM_COMMAND),
                   !.len   = cpu_to_be16(len)]
    ELSE [c EXCEPT !.valid = SPAPR_VTPM_MSG_RESULT,
                   !.msg   = SPAPR_VTPM_VTPM_ERROR,
                   !.len   = cpu_to_be16(0),
                   !.data  = cpu_to_be32(SPAPR_VTPM_ERR_COPY_OUT_FAILED)]

\* the number of bytes _tpm_spapr_request_completed copies out (line 473)
CompletionLen(buf, size) == MIN(tpm_cmd_get_size(buf), size)

\* a copy-out that forgets the byte order of the data field
CompletionAddr_le(c) ==
    c.data[4] * 16777216 + c.data[3] * 65536 + c.data[2] * 256 + c.data[1]

\* the guest address _tpm_spapr_request_completed copies to (line 474)
CompletionAddr(c) == be32_to_cpu(c.data)

\* _tpm_spapr_request_completed on a scratch buffer holding buf; op names the
\* caller, next the phase the caller leaves the device in
SpaprCompleted(op, buf, next) ==
    LET len == CompletionLen(buf, be_buffer_size) IN
    /\ state' = SPAPR_VTPM_STATE_COMPLETION
    /\ buffer' = buf
    /\ \E wrc \in {H_SUCCESS, H_DEST_PARM} :
        LET wr == [dir |-> "write", addr |-> CompletionAddr(crq), len |-> len,
                   rc |-> wrc]
        IN  \/ /\ crq' = CompletionCRQ(crq, wrc, len)
               /\ \E src \in {"sent", "failed"} :
                    io' = [NoIO EXCEPT !.op = op, !.dma = <<wr>>,
                               !.sent = <<CompletionCRQ(crq, wrc, len)>>,
                               !.send_rc = src]
               /\ phase' = next
            \/ \* reading len > sizeof(s->buffer) bytes runs off the object;
               \* the process may die on it
               /\ len > SizeofBuffer
               /\ crq' = crq
               /\ io' = [NoIO EXCEPT !.op = op, !.rc = "abort", !.dma = <<wr>>]
               /\ phase' = "halted"
    /\ UNCHANGED <<be_tpm_version, be_buffer_size, run_bh_func>>

\* what the backend may leave in the out buffer when it is done with a command:
\* a response, or (when it failed) the bytes that were there
BackendWrites(buf) == {buf} \cup {[kind |-> "rsp", size |-> n] : n \in RspSizes}

\* tpm_spapr_request_completed: the backend is done with a command and runs
\* the completion callback
tpm_spapr_request_completed ==
    /\ UNCHANGED had_startup_error
    /\ phase = "running"
    /\ bePending > 0
    /\ bePending' = bePending - 1
    /\ \E b \in BackendWrites(buffer) : SpaprCompleted("request_completed", b, phase)
    /\ UNCHANGED crbVars

\* the result of tpm_spapr_get_version (lines 526-530) for a backend whose
\* tpm_backend_had_startup_error is err and whose version is ver
SpaprVersion(err, ver) == IF err THEN TPM_VERSION_UNSPEC ELSE ver

\* tpm_spapr_get_version
tpm_spapr_get_version ==
    /\ phase = "running"
    /\ \E ver \in TPMVersions :
          io' = [NoIO EXCEPT !.op = "get_version",
                     !.arg = <<had_startup_error, ver>>,
                     !.rc = SpaprVersion(had_startup_error, ver)]
    /\ UNCHANGED <<spaprVars, bePending, phase, had_startup_error>>
    /\ UNCHANGED crbVars

\* a wait that never reports a command
tpm_backend_wait_cmd_completed_never(pending) == FALSE

\* the result of tpm_backend_wait_cmd_completed (line 542): whether a command
\* was at the backend
tpm_backend_wait_cmd_completed(pending) == pending > 0

\* tpm_spapr_pre_save: tpm_backend_wait_cmd_completed returns once the backend
\* is idle and tells whether it had to wait for a command; the callback of
\* that command has not run
tpm_spapr_pre_save ==
    /\ UNCHANGED had_startup_error
    /\ phase = "running"
    /\ run_bh_func' = tpm_backend_wait_cmd_completed(bePending)
    /\ \E b \in IF bePending > 0 THEN BackendWrites(buffer) ELSE {buffer} :
          buffer' = b
    /\ bePending' = 0
    /\ phase' = "saved"
    /\ io' = [NoIO EXCEPT !.op = "pre_save", !.rc = "0"]
    /\ UNCHANGED <<crq, state, be_tpm_version, be_buffer_size>>
    /\ UNCHANGED crbVars

\* tpm_spapr_post_load on the fields of vmstate_spapr_vtpm
tpm_spapr_post_load ==
    /\ UNCHANGED had_startup_error
    /\ phase = "saved"
    /\ IF run_bh_func
       THEN SpaprCompleted("post_load", buffer, "running")
       ELSE /\ io' = [NoIO EXCEPT !.op = "post_load", !.rc = "0"]
            /\ phase' = "running"
            /\ UNCHANGED spaprVars
    /\ UNCHANGED bePending
    /\ UNCHANGED crbVars


(***************************************************************************)
(* CRB                                                                     *)
(***************************************************************************)
\* struct crb_regs (include/hw/acpi/tpm.h 26-51): the members and their sizes
crb_regs_layout ==
    << <<"loc_state", 4>>, <<"reserved1", 4>>, <<"loc_ctrl", 4>>,
       <<"loc_sts", 4>>, <<"reserved2", 32>>, <<"intf_id_low", 4>>,
       <<"intf_id_high", 4>>, <<"ctrl_ext_low", 4>>, <<"ctrl_ext_high", 4>>,
       <<"ctrl_req", 4>>, <<"ctrl_sts", 4>>, <<"ctrl_cancel", 4>>,
       <<"ctrl_start", 4>>, <<"ctrl_int_enable", 4>>, <<"ctrl_int_sts", 4>>,
       <<"ctrl_cmd_size", 4>>, <<"ctrl_cmd_pa_low", 4>>,
       <<"ctrl_cmd_pa_high", 4>>, <<"ctrl_rsp_size", 4>>,
       <<"ctrl_rsp_pa_low", 4>>, <<"ctrl_rsp_pa_high", 4>>,
       <<"reserved3", 16>>, <<"data_buffer", 4096 - 128>> >>

RECURSIVE LayoutSize(_)
LayoutSize(n) == IF n = 0 THEN 0 ELSE LayoutSize(n - 1) + crb_regs_layout[n][2]

\* sizeof(struct crb_regs); the structure is QEMU_PACKED
sizeof_crb_regs == LayoutSize(Len(crb_regs_layout))

\* the offset of every member, by name
crb_regs_offsets ==
    [f \in {crb_regs_layout[i][1] : i \in 1..Len(crb_regs_layout)} |->
        LayoutSize((CHOOSE i \in 1..Len(crb_regs_layout) :
                        crb_regs_layout[i][1] = f) - 1)]

\* offsetof(struct crb_regs, field)
offsetof(field) == crb_regs_offsets[field]

\* the 32 bit registers of struct crb_regs
CrbRegNames ==
    {crb_regs_layout[i][1] : i \in {j \in 1..Len(crb_regs_layout) :
                                       crb_regs_layout[j][2] = 4}}

TPM_CRB_ADDR_SIZE == 4096
\* TPM_CRB_ADDR_BASE is 0xFED40000, kept as its two 16 bit halves
TPM_CRB_ADDR_BASE_HI == 65236
TPM_CRB_ADDR_BASE_LO == 0

CRB_ADDR_LOC_STATE   == offsetof("loc_state")
CRB_ADDR_LOC_CTRL    == offsetof("loc_ctrl")
CRB_ADDR_CTRL_REQ    == offsetof("ctrl_req")
CRB_ADDR_CTRL_CANCEL == offsetof("ctrl_cancel")
CRB_ADDR_CTRL_START  == offsetof("ctrl_start")

CRB_INTF_TYPE_CRB_ACTIVE      == 1
CRB_INTF_VERSION_CRB          == 16
CRB_INTF_CAP_XFER_SIZE_64     == 6144
CRB_INTF_CAP_CRB_SUPPORTED    == 16384
CRB_INTF_IF_SELECTOR_CRB      == 131072
CRB_INTF_RID                  == 16777216
PCI_VENDOR_ID_IBM             == 4116
CRB_INTF_DID                  == 65536

CRB_LOC_STATE_LOC_ASSIGNED      == 2
CRB_LOC_STATE_TPM_REG_VALID_STS == 128
CRB_LOC_STS_GRANTED             == 1
CRB_CTRL_STS_TPM_STS            == 1
CRB_CTRL_STS_TPM_IDLE           == 2

CRB_LOC_CTRL_REQUEST_ACCESS          == 1
CRB_LOC_CTRL_RELINQUISH              == 2
CRB_LOC_CTRL_RESET_ESTABLISHMENT_BIT == 8
CRB_CTRL_REQ_CMD_READY == 1
CRB_CTRL_REQ_GO_IDLE   == 2
CRB_START_INVOKE       == 1
CRB_CANCEL_INVOKE      == 1

\* CRB_CTRL_CMD_SIZE (tpm_crb.c 78)
CRB_CTRL_CMD_SIZE == TPM_CRB_ADDR_SIZE - sizeof_crb_regs

\* TPM_CRB_ADDR_BASE + n as the two 16 bit halves of a 32 bit value
CrbBasePlus(n) ==
    [hi |-> (TPM_CRB_ADDR_BASE_HI + (TPM_CRB_ADDR_BASE_LO + n) \div 65536) % 65536,
     lo |-> (TPM_CRB_ADDR_BASE_LO + n) % 65536]

\* the registers that hold a physical address are kept as 16 bit halves
CrbPaRegs == {"ctrl_cmd_pa_low", "ctrl_rsp_pa_low"}
ZeroRegs == [r \in CrbRegNames |->
                IF r \in CrbPaRegs THEN [hi |-> 0, lo |-> 0] ELSE 0]

\* the register file tpm_crb_reset writes (lines 223-243)
CrbResetRegs ==
    [ZeroRegs EXCEPT
        !["intf_id_low"] = CRB_INTF_TYPE_CRB_ACTIVE + CRB_INTF_VERSION_CRB
                           + CRB_INTF_CAP_XFER_SIZE_64 + CRB_INTF_CAP_CRB_SUPPORTED
                           + CRB_INTF_IF_SELECTOR_CRB + CRB_INTF_RID,
        !["intf_id_high"] = PCI_VENDOR_ID_IBM + CRB_INTF_DID,
        !["ctrl_cmd_size"] = CRB_CTRL_CMD_SIZE,
        !["ctrl_cmd_pa_low"] = CrbBasePlus(sizeof_crb_regs),
        !["ctrl_rsp_size"] = CRB_CTRL_CMD_SIZE,
        !["ctrl_rsp_pa_low"] = CrbBasePlus(sizeof_crb_regs)]

\* the negotiation of tpm_crb_reset (lines 220-221)
CrbNegotiate(B) == MIN(B, CRB_CTRL_CMD_SIZE)

\* tpm_crb_reset
tpm_crb_reset ==
    /\ UNCHANGED had_startup_error
    /\ phase \in {"realized", "running"}
    /\ bePending < MaxPending
    /\ \E B \in BackendBufferSizes :
        /\ crb_buffer_size' = CrbNegotiate(B)
        /\ regs' = CrbResetRegs
        /\ io' = [NoIO EXCEPT !.op = "reset", !.arg = <<B>>,
                      !.be = <<<<"reset">>, <<"startup", CrbNegotiate(B)>>>>]
    /\ phase' = "running"
    /\ UNCHANGED <<cmd, bePending>>
    /\ UNCHANGED spaprVars


\* the contents of the command window as tpm_cmd_get_size(mem) reads them:
\* the guest writes the window's RAM directly, not through the MMIO handlers
CrbCmdSizes == {0} \cup CmdSizes

\* a start that does not look at the start bit
CrbStartAccepted_always(val, r) == val = CRB_START_INVOKE

\* the test of tpm_crb_mmio_write that accepts a start (lines 172-173)
CrbStartAccepted(val, r) ==
    val = CRB_START_INVOKE /\ ~BitSet(r["ctrl_start"], CRB_START_INVOKE)

\* a command whose input length is the decoded size, unbounded
CrbCmd_nomin(size, bufsize) == [in_len |-> size, out_len |-> bufsize]

\* the TPMBackendCmd built by tpm_crb_mmio_write (lines 177-182)
CrbCmd(size, bufsize) ==
    [in_len |-> MIN(size, bufsize), out_len |-> bufsize]

\* a cancel that is forwarded whether or not a command was started
CrbCancelForwarded_always(val, r) == val = CRB_CANCEL_INVOKE

\* the test of tpm_crb_mmio_write that forwards a cancel (line 167)
CrbCancelForwarded(val, r) ==
    val = CRB_CANCEL_INVOKE /\ BitSet(r["ctrl_start"], CRB_START_INVOKE)

\* a command-ready that rewrites the whole of ctrl_sts
CrbCtrlReqRegs_wipes(val, r) ==
    IF val = CRB_CTRL_REQ_CMD_READY
    THEN [r EXCEPT !["ctrl_sts"] = 0]
    ELSE IF val = CRB_CTRL_REQ_GO_IDLE
    THEN [r EXCEPT !["ctrl_sts"] = OrBit(@, CRB_CTRL_STS_TPM_IDLE)]
    ELSE r

\* the registers after a write of val to ctrl_req (lines 156-165)
CrbCtrlReqRegs(val, r) ==
    IF val = CRB_CTRL_REQ_CMD_READY
    THEN [r EXCEPT !["ctrl_sts"] = ClearBit(@, CRB_CTRL_STS_TPM_IDLE)]
    ELSE IF val = CRB_CTRL_REQ_GO_IDLE
    THEN [r EXCEPT !["ctrl_sts"] = OrBit(@, CRB_CTRL_STS_TPM_IDLE)]
    ELSE r

\* a cancel that clears the start bit itself
CrbCancelRegs_clears(val, r) ==
    IF val = CRB_CANCEL_INVOKE
    THEN [r EXCEPT !["ctrl_start"] = ClearBit(@, CRB_START_INVOKE)]
    ELSE r

\* the registers after a write of val to ctrl_cancel (lines 166-170): the
\* cancel is forwarded to the backend, no register is written
CrbCancelRegs(val, r) == r

\* the registers after a write of val to loc_ctrl (lines 187-200)
CrbLocCtrlRegs(val, r) ==
    IF val = CRB_LOC_CTRL_REQUEST_ACCESS
    THEN [r EXCEPT !["loc_sts"] = CRB_LOC_STS_GRANTED,
                   !["loc_state"] = CRB_LOC_STATE_LOC_ASSIGNED
                                    + CRB_LOC_STATE_TPM_REG_VALID_STS]
    ELSE r

\* a write outside the four registers of the switch that stores the value
CrbOtherRegs_stores(addr, val, r) ==
    LET hit == {f \in CrbRegNames \ CrbPaRegs : crb_regs_offsets[f] = addr}
    IN  IF hit = {} THEN r ELSE [r EXCEPT ![CHOOSE f \in hit : TRUE] = val]

\* the registers after a write of val to an address that is none of the case
\* labels (lines 155-201): the switch has no default
CrbOtherRegs(addr, val, r) == r

\* the addresses and values a guest writes
CrbAddrs ==
    {CRB_ADDR_LOC_STATE, CRB_ADDR_LOC_CTRL, CRB_ADDR_CTRL_REQ,
     offsetof("ctrl_sts"), CRB_ADDR_CTRL_CANCEL, CRB_ADDR_CTRL_START,
     CRB_ADDR_CTRL_START + 1, offsetof("ctrl_cmd_size"),
     offsetof("ctrl_cmd_pa_low"), offsetof("ctrl_rsp_size"),
     offsetof("ctrl_rsp_pa_low"), offsetof("intf_id_low"),
     offsetof("intf_id_high"), offsetof("data_buffer")}
CrbVals  == {0, 1, 2, 3, 8}
CrbSizes == {1, 4}

\* tpm_crb_mmio_write
tpm_crb_mmio_write ==
    /\ UNCHANGED had_startup_error
    /\ phase = "running"
    /\ \E addr \in CrbAddrs, val \in CrbVals, size \in CrbSizes :
        LET done(calls, dl) ==
                io' = [NoIO EXCEPT !.op = "mmio_write", !.arg = <<addr, val, size>>,
                           !.be = calls, !.delivered = dl]
        IN
        IF addr = CRB_ADDR_CTRL_REQ THEN
            /\ regs' = CrbCtrlReqRegs(val, regs)
            /\ done(<<>>, <<>>)
            /\ UNCHANGED <<cmd, bePending>>
        ELSE IF addr = CRB_ADDR_CTRL_CANCEL THEN
            /\ done(IF CrbCancelForwarded(val, regs) THEN <<<<"cancel">>>> ELSE <<>>,
                    <<>>)
            /\ regs' = CrbCancelRegs(val, regs)
            /\ UNCHANGED <<cmd, bePending>>
        ELSE IF addr = CRB_ADDR_CTRL_START THEN
            IF CrbStartAccepted(val, regs)
            THEN \E n \in CrbCmdSizes :
                    /\ regs' = [regs EXCEPT !["ctrl_start"] =
                                    OrBit(@, CRB_START_INVOKE)]
                    /\ cmd' = CrbCmd(n, crb_buffer_size)
                    /\ bePending' = bePending + 1
                    /\ io' = [NoIO EXCEPT !.op = "mmio_write",
                                  !.arg = <<addr, val, size, n>>,
                                  !.delivered = <<CrbCmd(n, crb_buffer_size)>>]
            ELSE /\ done(<<>>, <<>>)
                 /\ UNCHANGED <<regs, cmd, bePending>>
        ELSE IF addr = CRB_ADDR_LOC_CTRL THEN
            /\ regs' = CrbLocCtrlRegs(val, regs)
            /\ done(<<>>, <<>>)
            /\ UNCHANGED <<cmd, bePending>>
        ELSE
            /\ regs' = CrbOtherRegs(addr, val, regs)
            /\ done(<<>>, <<>>)
            /\ UNCHANGED <<cmd, bePending>>
    /\ UNCHANGED <<crb_buffer_size, phase>>
    /\ UNCHANGED spaprVars

\* the four bytes, least significant first, of the 32 bit word of struct
\* crb_regs at the aligned offset a
CrbWordBytes(r, a) ==
    LET hit == {f \in CrbRegNames : crb_regs_offsets[f] = a}
    IN  IF hit = {} THEN <<0, 0, 0, 0>>
        ELSE LET name == CHOOSE f \in hit : TRUE
                 v  == r[name]
                 lo == IF name \in CrbPaRegs THEN v.lo ELSE v % 65536
                 hi == IF name \in CrbPaRegs THEN v.hi ELSE v \div 65536
             IN  <<lo % 256, lo \div 256, hi % 256, hi \div 256>>

\* the value tpm_crb_mmio_read returns (lines 139-141), as its four bytes,
\* least significant first: the word at addr & ~3 shifted right by 8 * (addr & 3)
CrbReadValue(r, addr) ==
    LET w == CrbWordBytes(r, addr - (addr % 4))
        k == addr % 4
    IN  [i \in 1..4 |-> IF i + k <= 4 THEN w[i + k] ELSE 0]

\* tpm_crb_mmio_read
tpm_crb_mmio_read ==
    /\ UNCHANGED had_startup_error
    /\ phase = "running"
    /\ \E addr \in CrbAddrs, size \in CrbSizes :
          io' = [NoIO EXCEPT !.op = "mmio_read", !.arg = <<addr, size>>,
                     !.rc = CrbReadValue(regs, addr)]
    /\ UNCHANGED <<crbVars, bePending, phase>>
    /\ UNCHANGED spaprVars

\* a completion whose success also clears the error bit
CrbCompletedRegs_clearsts(r, ret) ==
    LET r1 == [r EXCEPT !["ctrl_start"] = ClearBit(@, CRB_START_INVOKE)]
    IN  IF ret # 0
        THEN [r1 EXCEPT !["ctrl_sts"] = OrBit(@, CRB_CTRL_STS_TPM_STS)]
        ELSE [r1 EXCEPT !["ctrl_sts"] = ClearBit(@, CRB_CTRL_STS_TPM_STS)]

\* the registers after tpm_crb_request_completed(ti, ret)
CrbCompletedRegs(r, ret) ==
    LET r1 == [r EXCEPT !["ctrl_start"] = ClearBit(@, CRB_START_INVOKE)]
    IN  IF ret # 0
        THEN [r1 EXCEPT !["ctrl_sts"] = OrBit(@, CRB_CTRL_STS_TPM_STS)]
        ELSE r1

\* tpm_crb_request_completed: the backend is done with a command and runs the
\* completion callback with its result
tpm_crb_request_completed ==
    /\ UNCHANGED had_startup_error
    /\ phase = "running"
    /\ bePending > 0
    /\ bePending' = bePending - 1
    /\ \E ret \in {0, -1} :
        /\ regs' = CrbCompletedRegs(regs, ret)
        /\ io' = [NoIO EXCEPT !.op = "request_completed", !.arg = <<ret>>]
    /\ UNCHANGED <<cmd, crb_buffer_size, phase>>
    /\ UNCHANGED spaprVars

(***************************************************************************)
(* The devices as created: the objects are zero-initialised.  realize     *)
(* ("created" -> "realized" or "failed") comes first, and the first reset  *)
(* ("realized" -> "running") precedes every guest access and every backend *)
(* callback.                                                               *)
(***************************************************************************)
Init ==
    /\ crq = ZeroCRQ
    /\ state = SPAPR_VTPM_STATE_NONE
    /\ buffer = ZeroBuffer
    /\ be_tpm_version = TPM_VERSION_UNSPEC
    /\ be_buffer_size = 0
    /\ run_bh_func = FALSE
    /\ regs = ZeroRegs
    /\ cmd = [in_len |-> 0, out_len |-> 0]
    /\ crb_buffer_size = 0
    /\ bePending = 0
    /\ had_startup_error = FALSE
    /\ phase = "created"
    /\ io = NoIO

\* the sPAPR vTPM device
Next ==
    \/ tpm_spapr_realizefn
    \/ tpm_spapr_reset
    \/ tpm_spapr_do_crq
    \/ tpm_spapr_request_completed
    \/ tpm_spapr_pre_save
    \/ tpm_spapr_post_load
    \/ tpm_spapr_get_version

Spec == Init /\ [][Next]_vars

\* the CRB device
NextCRB ==
    \/ tpm_crb_realizefn
    \/ tpm_crb_reset
    \/ tpm_crb_mmio_write
    \/ tpm_crb_mmio_read
    \/ tpm_crb_request_completed

SpecCRB == Init /\ [][NextCRB]_vars

\* the sPAPR vTPM device reset once and never again, with a backend that
\* completes every command delivered to it
tpm_spapr_first_reset == phase = "realized" /\ tpm_spapr_reset

NextLive ==
    \/ tpm_spapr_realizefn
    \/ tpm_spapr_first_reset
    \/ tpm_spapr_do_crq
    \/ tpm_spapr_request_completed

SpecLive ==
    Init /\ [][NextLive]_vars /\ WF_vars(tpm_spapr_request_completed)

\* the CRQ framing alone
NextFraming == VioCRQ_frame

SpecFraming == Init /\ [][NextFraming]_vars


(***************************************************************************)
(* Properties                                                              *)
(***************************************************************************)
Range(f) == {f[i] : i \in DOMAIN f}
IsCommand(m, op) == m.valid = SPAPR_VTPM_VALID_COMMAND /\ m.msg = op
StsErrorBit(r) == BitSet(r["ctrl_sts"], CRB_CTRL_STS_TPM_STS)
StartBit(r) == BitSet(r["ctrl_start"], CRB_START_INVOKE)

\* C1: a TPM command CRQ dispatched while the state is Executing returns
\* H_BUSY, delivers nothing to the backend, does no DMA, sends no CRQ and
\* leaves the tracked crq, the scratch buffer and the state as they were.
C1_BusyRejection ==
    [][ (/\ io'.op = "do_crq"
         /\ IsCommand(io'.arg, SPAPR_VTPM_TPM_COMMAND)
         /\ state = SPAPR_VTPM_STATE_EXECUTION)
        => /\ io'.rc = H_BUSY
           /\ io'.delivered = <<>>
           /\ io'.dma = <<>>
           /\ io'.sent = <<>>
           /\ io'.be = <<>>
           /\ crq' = crq
           /\ buffer' = buffer
           /\ state' = state
           /\ bePending' = bePending ]_vars

\* a command is executing and a TPM command carrying another guest address
\* has just been rejected
C1_Witness ==
    /\ state = SPAPR_VTPM_STATE_EXECUTION
    /\ io.op = "do_crq"
    /\ io.rc = H_BUSY
    /\ IsCommand(io.arg, SPAPR_VTPM_TPM_COMMAND)
    /\ io.arg.data # crq.data

\* C2: in every reachable state at most one command has been delivered to the
\* backend and not yet completed, resets included.
C2_SingleInFlight == bePending <= 1

\* C6: after every tpm_spapr_reset the negotiated size is the backend's size
\* rounded up to a multiple of the page size, and at least the size of the
\* scratch buffer, whatever the state and the size were before, and the
\* backend is reset and started up with exactly that size.
C6_ResetNegotiation ==
    io.op = "reset" =>
        LET B == io.arg[1]
            n == be_buffer_size
        IN  /\ n % TARGET_PAGE_SIZE = 0
            /\ n >= B
            /\ n >= SizeofBuffer
            /\ n = SizeofBuffer \/ n - TARGET_PAGE_SIZE < B
            /\ io.be = <<<<"reset">>, <<"startup", n>>>>
            /\ state = SPAPR_VTPM_STATE_NONE

\* a reset, with a command still at the backend, whose backend reported one
\* byte more than a page
C6_Witness ==
    /\ io.op = "reset"
    /\ bePending = 1
    /\ io.arg[1] = TARGET_PAGE_SIZE + 1
    /\ be_buffer_size = 2 * TARGET_PAGE_SIZE

\* C7: the answer to Get-RTCE-buffer-size is one CRQ whose msg is the opcode
\* with the response flag, whose len decodes to the negotiated size and whose
\* data is the request's.
C7_RtceBufferSize ==
    (io.op = "do_crq" /\ IsCommand(io.arg, SPAPR_VTPM_GET_RTCE_BUFFER_SIZE))
        => /\ Len(io.sent) = 1
           /\ io.sent[1].msg = SPAPR_VTPM_GET_RTCE_BUFFER_SIZE + SPAPR_VTPM_MSG_RESULT
           /\ be16_to_cpu(io.sent[1].len) = be_buffer_size
           /\ io.sent[1].data = io.arg.data

\* C8: a completion callback that returns leaves the state Completed, has
\* written min(decoded response size, negotiated size) bytes to the guest and
\* has sent one CRQ tagged result: TPM-command|response with len = the bytes
\* written when the write succeeded, vTPM-error with len 0 and data
\* copy-out-failed when it failed.
C8_CompletionResponse ==
    (io.op = "request_completed" /\ io.rc # "abort")
        => /\ state = SPAPR_VTPM_STATE_COMPLETION
           /\ Len(io.dma) = 1
           /\ io.dma[1].dir = "write"
           /\ io.dma[1].len = MIN(tpm_cmd_get_size(buffer), be_buffer_size)
           /\ Len(io.sent) = 1
           /\ io.sent[1].valid = SPAPR_VTPM_MSG_RESULT
           /\ io.dma[1].rc = H_SUCCESS =>
                /\ io.sent[1].msg = SPAPR_VTPM_TPM_COMMAND + SPAPR_VTPM_MSG_RESULT
                /\ be16_to_cpu(io.sent[1].len) = io.dma[1].len
           /\ io.dma[1].rc # H_SUCCESS =>
                /\ io.sent[1].msg = SPAPR_VTPM_VTPM_ERROR
                /\ be16_to_cpu(io.sent[1].len) = 0
                /\ be32_to_cpu(io.sent[1].data) = SPAPR_VTPM_ERR_COPY_OUT_FAILED

\* C9: an accepted TPM command makes the address in its data field the
\* tracked one; a TPM command dispatched while Executing is rejected and every
\* other dispatch leaves the tracked message as it is; the completion
\* callback copies the response to the tracked address.
C9_ResponseAddressing ==
    [][ /\ (/\ io'.op = "do_crq"
            /\ IsCommand(io'.arg, SPAPR_VTPM_TPM_COMMAND)
            /\ state # SPAPR_VTPM_STATE_EXECUTION)
           => be32_to_cpu(crq'.data) = be32_to_cpu(io'.arg.data)
        /\ (/\ io'.op = "do_crq"
            /\ ~(/\ IsCommand(io'.arg, SPAPR_VTPM_TPM_COMMAND)
                 /\ state # SPAPR_VTPM_STATE_EXECUTION))
           => crq' = crq
        /\ io'.op = "request_completed"
           => /\ Len(io'.dma) = 1
              /\ io'.dma[1].dir = "write"
              /\ io'.dma[1].addr = be32_to_cpu(crq.data) ]_vars

\* the completion callback has copied a response to the second guest address
C9_Witness ==
    /\ io.op = "request_completed"
    /\ Len(io.dma) = 1
    /\ io.dma[1].addr = 16909060
    /\ io.dma[1].rc = H_SUCCESS
    /\ state = SPAPR_VTPM_STATE_COMPLETION

\* C10: a dispatch of a TPM command whose DMA read failed has delivered the
\* command to the backend, left the state Executing and sent one vTPM-error
\* CRQ with data copy-in-failed.
C10_CopyInFailure ==
    (/\ io.op = "do_crq"
     /\ Len(io.dma) = 1
     /\ io.dma[1].dir = "read"
     /\ io.dma[1].rc # H_SUCCESS)
        => /\ Len(io.delivered) = 1
           /\ state = SPAPR_VTPM_STATE_EXECUTION
           /\ Len(io.sent) = 1
           /\ io.sent[1].msg = SPAPR_VTPM_VTPM_ERROR
           /\ be32_to_cpu(io.sent[1].data) = SPAPR_VTPM_ERR_COPY_IN_FAILED

\* C3: a write of start-invoke to ctrl_start while the start bit is set
\* delivers nothing and changes neither the registers nor the command
\* descriptor; with the start bit clear it sets the bit and delivers exactly
\* one command; and no guest access clears the start bit, so of any number of
\* start-invoke writes with no completion in between only the first delivers.
C3_IdempotentStart ==
    [][ /\ (/\ io'.op = "mmio_write"
            /\ io'.arg[1] = CRB_ADDR_CTRL_START
            /\ io'.arg[2] = CRB_START_INVOKE)
           => IF StartBit(regs)
              THEN /\ io'.delivered = <<>>
                   /\ regs' = regs
                   /\ cmd' = cmd
                   /\ bePending' = bePending
              ELSE /\ Len(io'.delivered) = 1
                   /\ bePending' = bePending + 1
                   /\ StartBit(regs')
        /\ (io'.op \in {"mmio_write", "mmio_read"} /\ StartBit(regs))
           => StartBit(regs') ]_vars

\* start-invoke has been written with the command of an earlier start-invoke
\* still at the backend; nothing was delivered
C3_Witness ==
    /\ io.op = "mmio_write"
    /\ io.arg[1] = CRB_ADDR_CTRL_START
    /\ io.arg[2] = CRB_START_INVOKE
    /\ io.delivered = <<>>
    /\ StartBit(regs)
    /\ bePending = 1

C5_CrbNegotiation ==
    io.op = "reset" =>
        /\ CRB_CTRL_CMD_SIZE = 3840
        /\ crb_buffer_size = MIN(io.arg[1], 3840)
        /\ io.arg[1] = 4096 =>
             /\ crb_buffer_size = 3840
             /\ regs["ctrl_cmd_size"] = 3840
             /\ regs["ctrl_rsp_size"] = 3840
             /\ io.be = <<<<"reset">>, <<"startup", 3840>>>>

\* C11: post-load with the deferred-completion flag set performs exactly one
\* DMA write, of the restored scratch buffer to the address of the saved
\* request, and sends exactly one response CRQ; post-load with the flag clear
\* performs no DMA write and sends no CRQ.
C11_MigrationDelivery ==
    io.op = "post_load" =>
        IF run_bh_func
        THEN /\ Len(io.dma) = 1
             /\ io.dma[1].dir = "write"
             /\ io.dma[1].len = MIN(tpm_cmd_get_size(buffer), be_buffer_size)
             /\ Len(io.sent) = 1
             /\ io.sent[1].valid = SPAPR_VTPM_MSG_RESULT
             /\ state = SPAPR_VTPM_STATE_COMPLETION
        ELSE /\ io.dma = <<>>
             /\ io.sent = <<>>

\* C12 as stated: pre-save invoked while a command is Executing returns with
\* the backend idle, and the state it leaves to be serialized is Completed
\* with the deferred-replay flag set.
C12_SnapshotCompleted ==
    [][ (io'.op = "pre_save" /\ state = SPAPR_VTPM_STATE_EXECUTION)
        => /\ bePending' = 0
           /\ state' = SPAPR_VTPM_STATE_COMPLETION
           /\ run_bh_func' ]_vars

\* C12 as amended: pre-save invoked while a command is Executing returns with
\* the backend idle and the deferred-replay flag set; it does no DMA and sends
\* no CRQ and leaves the execution state and the saved request as they were,
\* so the state serialized is Executing; the state becomes Completed when
\* post-load replays the completion.
C12_SnapshotExecuting ==
    [][ /\ (io'.op = "pre_save" /\ state = SPAPR_VTPM_STATE_EXECUTION)
           => /\ bePending' = 0
              /\ run_bh_func'
              /\ state' = SPAPR_VTPM_STATE_EXECUTION
              /\ crq' = crq
              /\ io'.dma = <<>>
              /\ io'.sent = <<>>
        /\ (io'.op = "post_load" /\ run_bh_func)
           => state' = SPAPR_VTPM_STATE_COMPLETION ]_vars

\* pre-save has returned for a command that was executing: the backend is
\* idle, the flag is set and the state to be serialized is Executing
C12_Witness ==
    /\ io.op = "pre_save"
    /\ phase = "saved"
    /\ state = SPAPR_VTPM_STATE_EXECUTION
    /\ run_bh_func
    /\ bePending = 0
    /\ buffer.kind = "rsp"

\* C13: realizing a front end fails exactly when another TPM front end
\* exists or no backend is attached; when it fails the device is not realized
\* and no region has been created or mapped, and when neither holds it
\* succeeds.
C13_RealizeValidation ==
    io.op = "realize" =>
        LET misconfigured == io.arg[1] > 1 \/ ~io.arg[2]
        IN  /\ io.rc # "" <=> misconfigured
            /\ io.rc # "" =>
                 /\ phase = "failed"
                 /\ \A i \in 1..Len(io.be) : io.be[i] \notin Range(CrbRegionCalls)
            /\ ~misconfigured => phase = "realized"

\* C14: whenever the backend reports a prior startup error, the version the
\* device's get-version interface returns is unspecified, and so is the
\* version in the data field (0) of the response to a Get-version CRQ.
C14_VersionGating ==
    had_startup_error =>
        /\ io.op = "get_version" => io.rc = TPM_VERSION_UNSPEC
        /\ (io.op = "do_crq" /\ IsCommand(io.arg, SPAPR_VTPM_GET_VERSION))
           => /\ Len(io.sent) = 1
              /\ be32_to_cpu(io.sent[1].data) = 0

\* C15: for every opcode of 8 bits, len of 16 bits and data of 32 bits, the
\* message that encodes them has 16 bytes, holds len and data most
\* significant byte first, and decodes to the same opcode, len and data.
C15_FramingRoundTrip ==
    io.op = "frame" =>
        LET raw == io.sent[1]
            t   == io.arg
        IN  /\ Len(raw) = 16
            /\ \A i \in 1..16 : raw[i] \in 0..255
            /\ raw[2] = t.msg
            /\ raw[3] * 256 + raw[4] = t.len
            /\ raw[5] * 256 + raw[6] = t.data.hi
            /\ raw[7] * 256 + raw[8] = t.data.lo
            /\ io.delivered = <<t>>

\* a vTPM-error message with len 300 and data 0xFFFF0304 has been framed: the
\* bytes of len are 1, 44 and the first byte of data is 255
C15_Witness ==
    /\ io.op = "frame"
    /\ io.arg = [msg |-> SPAPR_VTPM_VTPM_ERROR, len |-> 300,
                 data |-> [hi |-> 65535, lo |-> 772]]
    /\ io.sent[1][3] = 1
    /\ io.sent[1][4] = 44
    /\ io.sent[1][5] = 255
    /\ io.delivered[1].len = 300

\* C16: with a backend that completes every command and no reset after the
\* first, an accepted TPM command (state Executing) is eventually followed by
\* the state Completed with one result CRQ sent by the completion; and the
\* state leaves Executing in no other way.
C16_ResponseLiveness ==
    /\ (state = SPAPR_VTPM_STATE_EXECUTION)
          ~> (/\ state = SPAPR_VTPM_STATE_COMPLETION
              /\ io.op = "request_completed"
              /\ Len(io.sent) = 1
              /\ io.sent[1].valid = SPAPR_VTPM_MSG_RESULT)
    /\ [][ (state = SPAPR_VTPM_STATE_EXECUTION
              /\ state' # SPAPR_VTPM_STATE_EXECUTION)
           => io'.op = "request_completed" ]_vars

\* C17: the CRB completion callback clears the start bit of ctrl_start; with
\* a nonzero result it sets the TPM-status error bit of ctrl_sts and with a
\* zero result it leaves ctrl_sts as it was; it changes no other register and
\* no other bit; and the error bit, once set, is cleared only by a reset.
C17_CrbCompletion ==
    [][ /\ io'.op = "request_completed"
           => /\ ~StartBit(regs')
              /\ regs'["ctrl_start"] \div 2 = regs["ctrl_start"] \div 2
              /\ IF io'.arg[1] # 0
                 THEN /\ StsErrorBit(regs')
                      /\ regs'["ctrl_sts"] \div 2 = regs["ctrl_sts"] \div 2
                 ELSE regs'["ctrl_sts"] = regs["ctrl_sts"]
              /\ \A n \in DOMAIN regs \ {"ctrl_start", "ctrl_sts"} :
                    regs'[n] = regs[n]
              /\ cmd' = cmd
              /\ crb_buffer_size' = crb_buffer_size
        /\ (StsErrorBit(regs) /\ ~StsErrorBit(regs')) => io'.op = "reset" ]_vars

\* a command has completed with result zero and the error bit that an
\* earlier, failed command set is still there
C17_Witness ==
    /\ io.op = "request_completed"
    /\ io.arg = <<0>>
    /\ StsErrorBit(regs)
    /\ ~StartBit(regs)

\* C18: a write to ctrl_cancel forwards exactly one cancel to the backend
\* when the value is cancel-invoke and the start bit is set, and none
\* otherwise; it changes no register, delivers nothing and leaves the command
\* descriptor alone, so the start bit stays set and a start-invoke written
\* while it is set is still a no-op.
C18_CancelAdvisory ==
    [][ /\ (io'.op = "mmio_write" /\ io'.arg[1] = CRB_ADDR_CTRL_CANCEL)
           => /\ io'.be = IF io'.arg[2] = CRB_CANCEL_INVOKE /\ StartBit(regs)
                          THEN << <<"cancel">> >>
                          ELSE <<>>
              /\ regs' = regs
              /\ cmd' = cmd
              /\ bePending' = bePending
              /\ io'.delivered = <<>>
        /\ (io'.op = "mmio_write" /\ io'.arg[1] # CRB_ADDR_CTRL_CANCEL)
           => io'.be = <<>>
        /\ (/\ io.op = "mmio_write"
            /\ io.be = << <<"cancel">> >>
            /\ io'.op = "mmio_write"
            /\ io'.arg[1] = CRB_ADDR_CTRL_START)
           => /\ io'.delivered = <<>>
              /\ regs' = regs ]_vars

\* a cancel-invoke has been forwarded for a command at the backend and the
\* start bit is still set
C18_Witness ==
    /\ io.op = "mmio_write"
    /\ io.arg[1] = CRB_ADDR_CTRL_CANCEL
    /\ io.arg[2] = CRB_CANCEL_INVOKE
    /\ io.be = << <<"cancel">> >>
    /\ StartBit(regs)
    /\ bePending = 1

\* C19: an accepted start-invoke (start bit clear before) sets the start bit
\* and delivers exactly one command, the one recorded in cmd, whose input
\* length is min(size decoded from the window, negotiated size) and whose
\* output length is the negotiated size; the input length exceeds neither.
C19_StartSubmission ==
    [][ (/\ io'.op = "mmio_write"
         /\ io'.arg[1] = CRB_ADDR_CTRL_START
         /\ io'.arg[2] = CRB_START_INVOKE
         /\ ~StartBit(regs))
        => /\ StartBit(regs')
           /\ Len(io'.delivered) = 1
           /\ bePending' = bePending + 1
           /\ cmd' = io'.delivered[1]
           /\ LET c == io'.delivered[1]
                  n == io'.arg[4]
              IN  /\ c.out_len = crb_buffer_size
                  /\ c.in_len = IF n < crb_buffer_size THEN n ELSE crb_buffer_size
                  /\ c.in_len <= c.out_len
                  /\ c.in_len <= crb_buffer_size ]_vars

\* a start-invoke has been accepted for a window whose header announces
\* 70000 bytes: the command delivered is bounded by the negotiated size
C19_Witness ==
    /\ io.op = "mmio_write"
    /\ io.arg[1] = CRB_ADDR_CTRL_START
    /\ Len(io.delivered) = 1
    /\ io.arg[4] = 70000
    /\ io.delivered[1].in_len = crb_buffer_size
    /\ io.delivered[1].out_len = crb_buffer_size
    /\ StartBit(regs)

\* C20: a TPM command CRQ dispatched in a state other than Executing is
\* accepted: the saved message becomes the incoming one, the state becomes
\* Executing, at most negotiated-size bytes are DMA-read from the address in
\* data, one command is delivered with input length min(decoded size, scratch
\* length) and output length the scratch length, and no CRQ is sent when the
\* DMA read succeeded.
C20_CommandAcceptance ==
    [][ (/\ io'.op = "do_crq"
         /\ IsCommand(io'.arg, SPAPR_VTPM_TPM_COMMAND)
         /\ state # SPAPR_VTPM_STATE_EXECUTION)
        => /\ crq' = io'.arg
           /\ state' = SPAPR_VTPM_STATE_EXECUTION
           /\ Len(io'.dma) = 1
           /\ io'.dma[1].dir = "read"
           /\ io'.dma[1].addr = be32_to_cpu(io'.arg.data)
           /\ io'.dma[1].len <= be_buffer_size
           /\ Len(io'.delivered) = 1
           /\ io'.delivered[1].in_len = MIN(tpm_cmd_get_size(buffer'), SizeofBuffer)
           /\ io'.delivered[1].out_len = SizeofBuffer
           /\ io'.dma[1].rc = H_SUCCESS => io'.sent = <<>> ]_vars

InfoOpcodes == {SPAPR_VTPM_GET_RTCE_BUFFER_SIZE, SPAPR_VTPM_GET_VERSION,
                SPAPR_VTPM_PREPARE_TO_SUSPEND}

\* C21: in every execution state, Executing included, a Get-RTCE-buffer-size,
\* Get-version or Prepare-to-suspend CRQ is answered within the dispatch by
\* exactly one CRQ whose msg is the request opcode with the response flag,
\* returns H_SUCCESS, and leaves the state, the tracked crq and the scratch
\* buffer unchanged, with no DMA and no backend call; Prepare-to-suspend
\* echoes the len and data of the request.
C21_InformationalOpcodes ==
    [][ (/\ io'.op = "do_crq"
         /\ io'.arg.valid = SPAPR_VTPM_VALID_COMMAND
         /\ io'.arg.msg \in InfoOpcodes)
        => /\ io'.rc = H_SUCCESS
           /\ Len(io'.sent) = 1
           /\ io'.sent[1].valid = io'.arg.valid
           /\ io'.sent[1].msg = OrByte80(io'.arg.msg)
           /\ io'.sent[1].reserved = io'.arg.reserved
           /\ io'.dma = <<>>
           /\ io'.delivered = <<>>
           /\ io'.be = <<>>
           /\ state' = state
           /\ crq' = crq
           /\ buffer' = buffer
           /\ bePending' = bePending
           /\ UNCHANGED <<be_tpm_version, be_buffer_size, run_bh_func>>
           /\ io'.arg.msg = SPAPR_VTPM_PREPARE_TO_SUSPEND
                => /\ io'.sent[1].len = io'.arg.len
                   /\ io'.sent[1].data = io'.arg.data ]_vars

\* a command is executing and a Prepare-to-suspend carrying another guest
\* address than the tracked command has just been answered
C21_Witness ==
    /\ state = SPAPR_VTPM_STATE_EXECUTION
    /\ bePending > 0
    /\ io.op = "do_crq"
    /\ IsCommand(io.arg, SPAPR_VTPM_PREPARE_TO_SUSPEND)
    /\ io.rc = H_SUCCESS
    /\ Len(io.sent) = 1
    /\ io.sent[1].len = cpu_to_be16(300)
    /\ io.sent[1].data # crq.data

\* the addresses tpm_crb_mmio_write has a case for
CrbProtocolAddrs == {CRB_ADDR_CTRL_REQ, CRB_ADDR_CTRL_CANCEL,
                     CRB_ADDR_CTRL_START, CRB_ADDR_LOC_CTRL}

\* C22: every MMIO read, and every MMIO write whose address is not exactly
\* that of ctrl_req, ctrl_cancel, ctrl_start or loc_ctrl, leaves the register
\* file, the negotiated buffer size and the command slot unchanged and calls
\* the backend for nothing; ctrl_sts, the size and address registers and the
\* interface id registers are among the addresses a write does not reach.
C22_InertAccesses ==
    [][ (\/ io'.op = "mmio_read"
         \/ /\ io'.op = "mmio_write"
            /\ io'.arg[1] \notin CrbProtocolAddrs)
        => /\ regs' = regs
           /\ crb_buffer_size' = crb_buffer_size
           /\ cmd' = cmd
           /\ bePending' = bePending
           /\ io'.be = <<>>
           /\ io'.delivered = <<>> ]_vars

\* with a command outstanding, a nonzero value other than the register's has
\* just been written to the address of ctrl_sts
C22_Witness ==
    /\ io.op = "mmio_write"
    /\ io.arg[1] = offsetof("ctrl_sts")
    /\ io.arg[2] # 0
    /\ io.arg[2] # regs["ctrl_sts"]
    /\ StartBit(regs)
    /\ bePending > 0

\* C23: a write of command-ready to ctrl_req clears the idle bit of ctrl_sts
\* and a write of go-idle sets it, every other bit of ctrl_sts (the error bit
\* included) and every other register staying as it was; a write of any
\* other value to ctrl_req changes no register; none of these writes calls
\* the backend or touches the command slot.
C23_ControlRequest ==
    [][ (/\ io'.op = "mmio_write"
         /\ io'.arg[1] = CRB_ADDR_CTRL_REQ)
        => LET val == io'.arg[2] IN
           /\ \A f \in CrbRegNames \ {"ctrl_sts"} : regs'[f] = regs[f]
           /\ ClearBit(regs'["ctrl_sts"], CRB_CTRL_STS_TPM_IDLE)
                = ClearBit(regs["ctrl_sts"], CRB_CTRL_STS_TPM_IDLE)
           /\ val = CRB_CTRL_REQ_CMD_READY
                => ~BitSet(regs'["ctrl_sts"], CRB_CTRL_STS_TPM_IDLE)
           /\ val = CRB_CTRL_REQ_GO_IDLE
                => BitSet(regs'["ctrl_sts"], CRB_CTRL_STS_TPM_IDLE)
           /\ val \notin {CRB_CTRL_REQ_CMD_READY, CRB_CTRL_REQ_GO_IDLE}
                => regs' = regs
           /\ io'.be = <<>>
           /\ io'.delivered = <<>>
           /\ cmd' = cmd
           /\ crb_buffer_size' = crb_buffer_size
           /\ bePending' = bePending ]_vars

\* go-idle has just been written while a command is outstanding and an
\* earlier command had failed: the idle bit is set next to the error bit
C23_Witness ==
    /\ io.op = "mmio_write"
    /\ io.arg[1] = CRB_ADDR_CTRL_REQ
    /\ io.arg[2] = CRB_CTRL_REQ_GO_IDLE
    /\ BitSet(regs["ctrl_sts"], CRB_CTRL_STS_TPM_IDLE)
    /\ StsErrorBit(regs)
    /\ StartBit(regs)

InitSubMessages == {SPAPR_VTPM_INIT_CRQ_RESULT,
                    SPAPR_VTPM_INIT_CRQ_COMPLETE_RESULT}

\* C24: for an init-command CRQ whose sub-message is result or
\* complete-result the device sends exactly one CRQ, all zero except for the
\* init-command tag and the same sub-message; for any other sub-message it
\* sends nothing; in both cases no device state changes, nothing is read,
\* written or delivered, and the dispatch returns H_SUCCESS.
C24_InitHandshake ==
    [][ (/\ io'.op = "do_crq"
         /\ io'.arg.valid = SPAPR_VTPM_VALID_INIT_CRQ_COMMAND)
        => /\ io'.rc = H_SUCCESS
           /\ io'.arg.msg \in InitSubMessages
                => io'.sent = << [valid    |-> io'.arg.valid,
                                  msg      |-> io'.arg.msg,
                                  len      |-> <<0, 0>>,
                                  data     |-> <<0, 0, 0, 0>>,
                                  reserved |-> 0] >>
           /\ io'.arg.msg \notin InitSubMessages => io'.sent = <<>>
           /\ io'.dma = <<>>
           /\ io'.delivered = <<>>
           /\ io'.be = <<>>
           /\ UNCHANGED <<crq, state, buffer, be_tpm_version, be_buffer_size,
                          run_bh_func, bePending>> ]_vars

\* while a command is executing, a complete-result init CRQ with nonzero len,
\* data and reserved bytes has just been acknowledged
C24_Witness ==
    /\ state = SPAPR_VTPM_STATE_EXECUTION
    /\ io.op = "do_crq"
    /\ io.arg.valid = SPAPR_VTPM_VALID_INIT_CRQ_COMMAND
    /\ io.arg.msg = SPAPR_VTPM_INIT_CRQ_COMPLETE_RESULT
    /\ io.arg.len # <<0, 0>>
    /\ io.arg.reserved # 0
    /\ Len(io.sent) = 1
    /\ io.sent[1].len = <<0, 0>>

KnownOpcodes == {SPAPR_VTPM_TPM_COMMAND} \cup InfoOpcodes
SpaprStates == {SPAPR_VTPM_STATE_NONE, SPAPR_VTPM_STATE_EXECUTION,
                SPAPR_VTPM_STATE_COMPLETION}

\* C25: a CRQ whose valid tag is neither init-command nor command, or a
\* command CRQ whose opcode is none of TPM-command, Get-RTCE-buffer-size,
\* Get-version and Prepare-to-suspend, is answered by no CRQ, causes no DMA
\* and no backend call, changes no device state in any execution state, and
\* its dispatch returns H_SUCCESS; and the execution state is always one of
\* Idle, Executing and Completed.
C25_UnknownIgnored ==
    /\ [][ (/\ io'.op = "do_crq"
            /\ \/ io'.arg.valid \notin {SPAPR_VTPM_VALID_INIT_CRQ_COMMAND,
                                        SPAPR_VTPM_VALID_COMMAND}
               \/ /\ io'.arg.valid = SPAPR_VTPM_VALID_COMMAND
                  /\ io'.arg.msg \notin KnownOpcodes)
           => /\ io'.rc = H_SUCCESS
              /\ io'.sent = <<>>
              /\ io'.dma = <<>>
              /\ io'.delivered = <<>>
              /\ io'.be = <<>>
              /\ UNCHANGED <<crq, state, buffer, be_tpm_version,
                             be_buffer_size, run_bh_func, bePending>> ]_vars
    /\ [](state \in SpaprStates)

\* while a command is executing, a CRQ that carries the TPM-command opcode
\* under an unknown valid tag has just been dropped
C25_Witness ==
    /\ state = SPAPR_VTPM_STATE_EXECUTION
    /\ bePending > 0
    /\ io.op = "do_crq"
    /\ io.arg.valid \notin {SPAPR_VTPM_VALID_INIT_CRQ_COMMAND,
                            SPAPR_VTPM_VALID_COMMAND}
    /\ io.arg.msg = SPAPR_VTPM_TPM_COMMAND
    /\ io.rc = H_SUCCESS
    /\ io.sent = <<>>

\* C26: whatever buffer size the backend reports, the negotiated buffer size
\* never exceeds the capacity of the scratch buffer (MAX_BUFFER_SIZE, one
\* page), and so neither the DMA read of a dispatched command nor the DMA
\* write of a completion moves more bytes than the scratch buffer holds.
C26_ScratchBounds ==
    /\ be_buffer_size <= MAX_BUFFER_SIZE
    /\ \A i \in DOMAIN io.dma : io.dma[i].len <= SizeofBuffer

\* C27: for every sequence of guest MMIO writes, device resets and backend
\* completion callbacks, in every reachable state the start bit of ctrl_start
\* is set if and only if a command delivered to the backend has not yet had
\* its completion callback, and at most one delivered command is outstanding.
C27_CrbOneInFlight ==
    /\ StartBit(regs) <=> bePending > 0
    /\ bePending <= 1

\* C28: state Completed is entered only from state Executing: the completion
\* path (the backend's completion callback or the replay of post_load) sets
\* the state to Completed, DMA-writes to the guest and sends a result CRQ
\* only when the state is Executing; a completion that arrives after a reset
\* has made the state Idle neither moves the device to Completed nor writes
\* to guest memory.
C28_CompletedOnlyFromExecuting ==
    /\ [][ (state' = SPAPR_VTPM_STATE_COMPLETION
              /\ state # SPAPR_VTPM_STATE_COMPLETION)
           => state = SPAPR_VTPM_STATE_EXECUTION ]_vars
    /\ [][ (/\ io'.op \in {"request_completed", "post_load"}
            /\ state # SPAPR_VTPM_STATE_EXECUTION)
           => /\ state' = state
              /\ io'.dma = <<>>
              /\ io'.sent = <<>> ]_vars

=============================================================================
